---- MODULE Spec2Model ----
(***************************************************************************)
(* Model of the speechbrain recipes: the stage lifecycle of the SLU        *)
(* "multistage" recipe and of the CharTokens ASR template (on_stage_start, *)
(* compute_objectives, fit_batch, evaluate_batch, on_stage_end), their     *)
(* dataset preparation functions, the SimpleTokenizer and the LJSpeech     *)
(* manifest preparation.                                                   *)
(***************************************************************************)
EXTENDS Integers, Sequences, FiniteSets, TLC

(***************************************************************************)
(* Bounds of the model.                                                    *)
(***************************************************************************)
MaxEpochs == 2
MaxBatches == 2
InitLr == 4
MaxItems == 3
MaxDur == 2
MaxTokLen == 2
\* Number of LJSpeech utterances (LJSPEECH_EXPECTED_N, scaled down) and the
\* denominator of the split fractions.
ExpectedN == 4
PctDen == 2

\* Per-batch edit-error counts <<word errors, character errors>> of a batch.
Errs == {<<0, 0>>, <<0, 1>>, <<1, 2>>}
\* Average stage losses the training driver may report.
Losses == {0, 1}

TRAIN == "TRAIN"
VALID == "VALID"
TEST == "TEST"

SLU == "SLU"
ASR == "ASR"

\* Keys of the stage statistics a recipe can monitor.
MetricKeys == {"loss", "CER", "WER"}

VARIABLES
    recipe,              \* which recipe's Brain subclass runs
    metric_to_optimize,  \* hparams["metric_to_optimize"] (ASR template)
    number_of_epochs,    \* limit of hparams.epoch_counter
    pc,                  \* position of the training driver
    stage,               \* current sb.Stage
    epoch,               \* hparams.epoch_counter.current
    tests_left,          \* evaluate() calls still to run
    step,                \* batches processed in the current stage
    batch_count,         \* SLU.batch_count
    printed,             \* the last compute_objectives decoded and printed results
    metrics_created,     \* self.wer_metric / self.cer_metric exist
    wer_metric,          \* batches appended to self.wer_metric
    cer_metric,          \* batches appended to self.cer_metric
    evaluated,           \* batches the driver evaluated in the current stage
    train_stats,         \* self.train_stats
    stage_stats,         \* stage_stats of the last on_stage_end
    optimizer_lr,        \* learning rate of self.optimizer
    scheduler_lr,        \* current value held by hparams.lr_annealing
    calls,               \* calls made by the last on_stage_end, in order
    checkpoints,         \* checkpoints the checkpointer retains
    n_saved,             \* checkpoints saved so far
    loaded,              \* checkpoint loaded by evaluate()
    ended,               \* stage whose on_stage_end ran last
    lr_before,           \* optimizer_lr before the last on_stage_end
    ckpt_before,         \* checkpoints before the last on_stage_end
    given_loss,          \* stage_loss the driver passed to the last on_stage_end
    valid_ends           \* VALID stages completed so far

trainVars == <<recipe, metric_to_optimize, number_of_epochs, pc, stage, epoch,
               tests_left, step, batch_count, printed, metrics_created,
               wer_metric, cer_metric, evaluated, train_stats, stage_stats,
               optimizer_lr, scheduler_lr, calls, checkpoints, n_saved, loaded,
               ended, lr_before, ckpt_before, given_loss, valid_ends>>

\* State of one call of a recipe's dataset preparation function.
VARIABLES
    prep_recipe,         \* whose function is called: data_io_prepare or dataio_prepare
    hparams,             \* the hparams dictionary (the keys the function uses)
    hparams_in,          \* hparams as it was when the function was called
    train_manifest,      \* training utterances in manifest order
    prep_pc,             \* "call", "returned", "raised" or "fit"
    prep_exc,            \* exception raised by the function, "" if none
    datasets,            \* what the function returned
    loader_kwargs        \* train_loader_kwargs the main passed to fit()

prepVars == <<prep_recipe, hparams, hparams_in, train_manifest, prep_pc, prep_exc,
              datasets, loader_kwargs>>

\* State of one use of SimpleTokenizer.
VARIABLES
    tok_mode,            \* "text": encode then decode; "ids": decode then encode
    tok_input,           \* the text or the list of ids given
    tok_pc,              \* "start", "first", "back" or "raised"
    tok_out,             \* result of the first conversion
    tok_back,            \* result of converting tok_out back
    tok_exc              \* exception raised by a conversion, "" if none

tokVars == <<tok_mode, tok_input, tok_pc, tok_out, tok_back, tok_exc>>

\* State of one call of prepare_ljspeech.
VARIABLES
    lj_files,            \* which of the three manifest files exist
    lj_folder,           \* "missing", "raw" (LJSpeech-1.1 exists) or "downsampled"
    lj_found,            \* number of .wav files get_all_files finds
    lj_excl,             \* utterance ids listed in the uttids_to_excl file
    lj_valid_pct,        \* valid_percent, as a multiple of 1/PctDen
    lj_test_pct,         \* test_percent, as a multiple of 1/PctDen
    lj_fail,             \* the step at which the environment fails, if any
    lj_pc,               \* "call", "returned" or "raised"
    lj_exc,              \* exception raised, "" if none
    lj_ops,              \* steps the call performed besides writing manifests
    lj_written,          \* manifests the call wrote, in order
    lj_content,          \* utterances of each manifest the call wrote
    lj_before            \* manifest files that existed when the call started

ljVars == <<lj_files, lj_folder, lj_found, lj_excl, lj_valid_pct, lj_test_pct,
            lj_fail, lj_pc, lj_exc, lj_ops, lj_written, lj_content, lj_before>>

vars == <<trainVars, prepVars, tokVars, ljVars>>

IdleLj ==
    /\ lj_files = {} /\ lj_folder = "missing" /\ lj_found = 0 /\ lj_excl = {}
    /\ lj_valid_pct = 0 /\ lj_test_pct = 0 /\ lj_fail = "none"
    /\ lj_pc = "idle" /\ lj_exc = "" /\ lj_ops = {} /\ lj_written = <<>>
    /\ lj_content = <<>> /\ lj_before = {}

IdleTrain ==
    /\ recipe = SLU /\ metric_to_optimize = "WER" /\ number_of_epochs = 1
    /\ pc = "done" /\ stage = TRAIN /\ epoch = 1 /\ tests_left = 0 /\ step = 0
    /\ batch_count = 0 /\ printed = FALSE /\ metrics_created = FALSE
    /\ wer_metric = <<>> /\ cer_metric = <<>> /\ evaluated = <<>>
    /\ train_stats = <<>> /\ stage_stats = <<>>
    /\ optimizer_lr = 0 /\ scheduler_lr = 0 /\ calls = <<>>
    /\ checkpoints = {} /\ n_saved = 0 /\ loaded = {} /\ ended = "NONE"
    /\ lr_before = 0 /\ ckpt_before = {} /\ given_loss = 0 /\ valid_ends = 0

IdlePrep ==
    /\ prep_recipe = SLU /\ hparams = <<>> /\ hparams_in = <<>>
    /\ train_manifest = <<>>
    /\ prep_pc = "idle" /\ prep_exc = "" /\ datasets = <<>>
    /\ loader_kwargs = <<>>

IdleTok ==
    /\ tok_mode = "idle" /\ tok_input = <<>> /\ tok_pc = "idle"
    /\ tok_out = <<>> /\ tok_back = <<>> /\ tok_exc = ""

(***************************************************************************)
(* Helpers                                                                 *)
(***************************************************************************)
RECURSIVE SumField(_, _)
SumField(s, f) == IF s = <<>> THEN 0 ELSE s[1][f] + SumField(Tail(s), f)

EmptyStats == [k \in {} |-> 0]

\* ErrorRateStats.summarize("error_rate") over everything appended so far.
Summarize(metric, f) == SumField(metric, f)

\* One entry of the call log of on_stage_end.
Call(op, key, val, min_key) == [op |-> op, key |-> key, val |-> val, min_key |-> min_key]

\* hparams.lr_annealing(metric): the new value the scheduler may return.
LrAnnealing(value, metric) == {value, value \div 2}

\* Checkpointer.save_and_keep_only(meta, min_keys): the checkpoints retained
\* after saving `new`: the most recent one and one with the minimum of min_key.
KeepOnly(all, new, min_key) ==
    { {new, best} : best \in { c \in all : \A d \in all : c.meta[min_key] <= d.meta[min_key] } }

(***************************************************************************)
(* Stage lifecycle handlers of the two Brain subclasses                    *)
(***************************************************************************)
show_results_every == 100

\* SLU.on_stage_start / ASR.on_stage_start: fresh accumulators outside TRAIN.
SLU_on_stage_start(stg) ==
    /\ batch_count' = 0
    /\ IF stg # TRAIN
       THEN /\ cer_metric' = <<>>
            /\ wer_metric' = <<>>
            /\ metrics_created' = TRUE
       ELSE UNCHANGED <<cer_metric, wer_metric, metrics_created>>

\* Faulty variant: the accumulators are created once and never replaced.
Lazy_on_stage_start(stg) ==
    /\ UNCHANGED batch_count
    /\ IF stg # TRAIN /\ ~metrics_created
       THEN /\ cer_metric' = <<>>
            /\ wer_metric' = <<>>
            /\ metrics_created' = TRUE
       ELSE UNCHANGED <<cer_metric, wer_metric, metrics_created>>

ASR_on_stage_start(stg) ==
    /\ UNCHANGED batch_count
    /\ IF stg # TRAIN
       THEN /\ cer_metric' = <<>>
            /\ wer_metric' = <<>>
            /\ metrics_created' = TRUE
       ELSE UNCHANGED <<cer_metric, wer_metric, metrics_created>>

on_stage_start(stg) ==
    IF recipe = SLU THEN SLU_on_stage_start(stg) ELSE ASR_on_stage_start(stg)

\* SLU.compute_objectives: results are decoded and printed outside TRAIN and
\* on every show_results_every-th training batch; appended only outside TRAIN.
SLU_decodes(stg) == (stg # TRAIN) \/ (batch_count % show_results_every = 0)

\* Faulty variant: every decoded batch is appended, training ones included.
Decoded_appends(stg) == SLU_decodes(stg)

SLU_appends(stg) == SLU_decodes(stg) /\ stg # TRAIN

SLU_compute_objectives(stg, batch) ==
    /\ printed' = SLU_decodes(stg)
    /\ IF SLU_appends(stg)
       THEN /\ wer_metric' = Append(wer_metric, batch)
            /\ cer_metric' = Append(cer_metric, batch)
       ELSE UNCHANGED <<wer_metric, cer_metric>>

\* ASR.compute_objectives: greedy decoding and both appends outside TRAIN.
ASR_appends(stg) == stg # TRAIN

ASR_compute_objectives(stg, batch) ==
    /\ printed' = FALSE
    /\ IF ASR_appends(stg)
       THEN /\ wer_metric' = Append(wer_metric, batch)
            /\ cer_metric' = Append(cer_metric, batch)
       ELSE UNCHANGED <<wer_metric, cer_metric>>

compute_objectives(stg, batch) ==
    IF recipe = SLU THEN SLU_compute_objectives(stg, batch)
                    ELSE ASR_compute_objectives(stg, batch)

\* SLU.fit_batch (the ASR template keeps Brain.fit_batch, which counts nothing).
fit_batch(batch) ==
    /\ compute_objectives(TRAIN, batch)
    /\ batch_count' = IF recipe = SLU THEN batch_count + 1 ELSE batch_count

\* SLU.evaluate_batch (the ASR template keeps Brain.evaluate_batch).
evaluate_batch(batch, stg) ==
    /\ compute_objectives(stg, batch)
    /\ UNCHANGED batch_count

\* stage_stats as on_stage_end builds it.
StageStats(stg, stage_loss) ==
    IF stg = TRAIN
    THEN [k \in {"loss"} |-> stage_loss]
    ELSE [k \in {"loss", "CER", "WER"} |->
            IF k = "loss" THEN stage_loss
            ELSE IF k = "CER" THEN Summarize(cer_metric, "cerr")
            ELSE Summarize(wer_metric, "werr")]

\* Saving a checkpoint with `meta` and keeping only the best by min_key
\* (Checkpointer.save_and_keep_only).
SaveAndKeepOnly(sv) ==
    LET new == [n |-> n_saved + 1, meta |-> [k \in {sv.key} |-> sv.val]]
    IN /\ n_saved' = n_saved + 1
       /\ checkpoints' \in KeepOnly(checkpoints \cup {new}, new, sv.min_key)

\* Faulty variant: annealing driven by the character error rate.
CER_annealing_metric(stats) == stats["CER"]

\* SLU.on_stage_end: the value handed to hparams.lr_annealing.
SLU_annealing_metric(stats) == stats["WER"]

\* SLU.on_stage_end: the checkpointer.save_and_keep_only call.
SLU_save_call(stats) == Call("save_and_keep_only", "WER", stats["WER"], "WER")

\* SLU.on_stage_end: the calls of the VALID branch, in the code's order.
SLU_valid_calls(stats, old_lr, new_lr) ==
    << Call("lr_annealing", "", SLU_annealing_metric(stats), ""),
       Call("update_learning_rate", "", new_lr, ""),
       Call("log_stats", "valid", old_lr, ""),
       SLU_save_call(stats) >>

\* SLU.on_stage_end: the calls of the TEST branch.
SLU_test_calls(stats) ==
    << Call("log_stats", "test", epoch, ""),
       Call("write_stats", "wer_file", Summarize(wer_metric, "werr"), "") >>

SLU_on_stage_end(stg, stage_loss) ==
    LET stats == StageStats(stg, stage_loss) IN
    /\ stage_stats' = stats
    /\ train_stats' = IF stg = TRAIN THEN stats ELSE train_stats
    /\ IF stg = VALID
       THEN \E new_lr \in LrAnnealing(scheduler_lr, SLU_annealing_metric(stats)) :
              /\ scheduler_lr' = new_lr
              /\ optimizer_lr' = new_lr
              /\ calls' = SLU_valid_calls(stats, scheduler_lr, new_lr)
              /\ SaveAndKeepOnly(SLU_save_call(stats))
       ELSE IF stg = TEST
       THEN /\ calls' = SLU_test_calls(stats)
            /\ UNCHANGED <<scheduler_lr, optimizer_lr, n_saved, checkpoints>>
       ELSE /\ calls' = <<>>
            /\ UNCHANGED <<scheduler_lr, optimizer_lr, n_saved, checkpoints>>

\* ASR.on_stage_end: the value handed to hparams.lr_annealing.
ASR_annealing_metric(stats) == stats[metric_to_optimize]

\* Faulty variant: the meta records the WER under whatever key is monitored.
WER_save_call(stats) ==
    Call("save_and_keep_only", metric_to_optimize, stats["WER"],
         metric_to_optimize)

\* ASR.on_stage_end: the checkpointer.save_and_keep_only call.
ASR_save_call(stats) ==
    Call("save_and_keep_only", metric_to_optimize, stats[metric_to_optimize],
         metric_to_optimize)

\* ASR.on_stage_end: the calls of the VALID branch, in the code's order.
ASR_valid_calls(stats, old_lr, new_lr) ==
    << Call("lr_annealing", "", ASR_annealing_metric(stats), ""),
       Call("update_learning_rate", "", new_lr, ""),
       Call("log_stats", "valid", old_lr, ""),
       ASR_save_call(stats) >>

\* ASR.on_stage_end: the calls of the TEST branch.
ASR_test_calls(stats) ==
    << Call("log_stats", "test", epoch, ""),
       Call("write_stats", "wer_file", Summarize(wer_metric, "werr"), "") >>

ASR_on_stage_end(stg, stage_loss) ==
    LET stats == StageStats(stg, stage_loss) IN
    /\ stage_stats' = stats
    /\ train_stats' = IF stg = TRAIN THEN stats ELSE train_stats
    /\ IF stg = VALID
       THEN \E new_lr \in LrAnnealing(scheduler_lr, ASR_annealing_metric(stats)) :
              /\ scheduler_lr' = new_lr
              /\ optimizer_lr' = new_lr
              /\ calls' = ASR_valid_calls(stats, scheduler_lr, new_lr)
              /\ SaveAndKeepOnly(ASR_save_call(stats))
       ELSE IF stg = TEST
       THEN /\ calls' = ASR_test_calls(stats)
            /\ UNCHANGED <<scheduler_lr, optimizer_lr, n_saved, checkpoints>>
       ELSE /\ calls' = <<>>
            /\ UNCHANGED <<scheduler_lr, optimizer_lr, n_saved, checkpoints>>

on_stage_end(stg, stage_loss) ==
    IF recipe = SLU THEN SLU_on_stage_end(stg, stage_loss)
                    ELSE ASR_on_stage_end(stg, stage_loss)

(***************************************************************************)
(* The training driver (Brain.fit, Brain.evaluate) and the recipes' main   *)
(***************************************************************************)
\* Faulty variant: the ASR template selects by WER whatever it monitored.
WER_min_key == IF recipe = ASR THEN "WER" ELSE ""

\* min_key each recipe's main passes to evaluate(): the ASR template passes
\* hparams["metric_to_optimize"], the SLU recipe passes none.
evaluate_min_key == IF recipe = ASR THEN metric_to_optimize ELSE ""

\* Number of evaluate() calls of each recipe's main (test_real and test_synth
\* in the SLU recipe).
evaluate_calls == IF recipe = SLU THEN 2 ELSE 1

\* Checkpointer.recover_if_possible(min_key): the checkpoints evaluate() may
\* load: the most recent one without a key, else one with the least meta value
\* of min_key among those whose meta holds that key.
Recoverable(min_key) ==
    IF min_key = ""
    THEN { c \in checkpoints : \A d \in checkpoints : d.n <= c.n }
    ELSE LET keyed == { c \in checkpoints : min_key \in DOMAIN c.meta }
         IN { c \in keyed : \A d \in keyed : c.meta[min_key] <= d.meta[min_key] }

Batches(stg) ==
    { [id |-> <<stg, epoch, tests_left, step>>, werr |-> e[1], cerr |-> e[2]] :
        e \in IF stg = TRAIN THEN {<<0, 0>>} ELSE Errs }

InitTrain ==
    /\ recipe \in {SLU, ASR}
    /\ metric_to_optimize \in IF recipe = ASR THEN MetricKeys ELSE {"WER"}
    /\ number_of_epochs \in 1..MaxEpochs
    /\ pc = "stage_start"
    /\ stage = TRAIN
    /\ epoch = 1
    /\ tests_left = evaluate_calls
    /\ step = 0
    /\ batch_count = 0
    /\ printed = FALSE
    /\ metrics_created = FALSE
    /\ wer_metric = <<>>
    /\ cer_metric = <<>>
    /\ evaluated = <<>>
    /\ train_stats = EmptyStats
    /\ stage_stats = EmptyStats
    /\ optimizer_lr = InitLr
    /\ scheduler_lr = InitLr
    /\ calls = <<>>
    /\ checkpoints = {}
    /\ n_saved = 0
    /\ loaded = {}
    /\ ended = "NONE"
    /\ lr_before = InitLr
    /\ ckpt_before = {}
    /\ given_loss = 0
    /\ valid_ends = 0

\* Brain.fit / Brain.evaluate: self.on_stage_start(stage, epoch). What was
\* recorded about the previous on_stage_end (its locals and calls) is dropped.
StageStart ==
    /\ UNCHANGED <<prepVars, tokVars, ljVars>>
    /\ pc = "stage_start"
    /\ on_stage_start(stage)
    /\ pc' = "batches"
    /\ step' = 0
    /\ evaluated' = <<>>
    /\ stage_stats' = EmptyStats
    /\ calls' = <<>>
    /\ given_loss' = 0
    /\ lr_before' = optimizer_lr
    /\ ckpt_before' = checkpoints
    /\ UNCHANGED <<recipe, metric_to_optimize, number_of_epochs, stage, epoch,
                   tests_left, printed, train_stats, optimizer_lr,
                   scheduler_lr, checkpoints, n_saved, loaded, ended,
                   valid_ends>>

\* Brain.fit: one training batch.
FitBatch ==
    /\ UNCHANGED <<prepVars, tokVars, ljVars>>
    /\ pc = "batches"
    /\ stage = TRAIN
    /\ step < MaxBatches
    /\ \E batch \in Batches(stage) : fit_batch(batch)
    /\ step' = step + 1
    /\ UNCHANGED <<recipe, metric_to_optimize, number_of_epochs, pc, stage, epoch,
                   tests_left, metrics_created, evaluated, train_stats,
                   stage_stats, optimizer_lr, scheduler_lr, calls, checkpoints,
                   n_saved, loaded, ended, lr_before, ckpt_before, given_loss, valid_ends>>

\* Brain.fit / Brain.evaluate: one validation or test batch.
EvaluateBatch ==
    /\ UNCHANGED <<prepVars, tokVars, ljVars>>
    /\ pc = "batches"
    /\ stage \in {VALID, TEST}
    /\ step < MaxBatches
    /\ \E batch \in Batches(stage) :
         /\ evaluate_batch(batch, stage)
         /\ evaluated' = Append(evaluated, batch)
    /\ step' = step + 1
    /\ UNCHANGED <<recipe, metric_to_optimize, number_of_epochs, pc, stage, epoch,
                   tests_left, metrics_created, train_stats, stage_stats,
                   optimizer_lr, scheduler_lr, calls, checkpoints, n_saved,
                   loaded, ended, lr_before, ckpt_before, given_loss, valid_ends>>

\* Brain.fit / Brain.evaluate: self.on_stage_end(stage, avg_loss, epoch) once
\* the stage's data is exhausted, then the move to the next stage.
StageEnd ==
    /\ UNCHANGED <<prepVars, tokVars, ljVars>>
    /\ pc = "batches"
    /\ step >= 1
    /\ \E stage_loss \in Losses :
         /\ on_stage_end(stage, stage_loss)
         /\ given_loss' = stage_loss
    /\ valid_ends' = IF stage = VALID THEN valid_ends + 1 ELSE valid_ends
    /\ ended' = stage
    /\ lr_before' = optimizer_lr
    /\ ckpt_before' = checkpoints
    /\ IF stage = TRAIN
       THEN /\ stage' = VALID
            /\ pc' = "stage_start"
            /\ UNCHANGED <<epoch, tests_left>>
       ELSE IF stage = VALID
       THEN IF epoch < number_of_epochs
            THEN /\ stage' = TRAIN
                 /\ epoch' = epoch + 1
                 /\ pc' = "stage_start"
                 /\ UNCHANGED tests_left
            ELSE /\ stage' = TEST
                 /\ pc' = "evaluate"
                 /\ UNCHANGED <<epoch, tests_left>>
       ELSE /\ tests_left' = tests_left - 1
            /\ pc' = IF tests_left > 1 THEN "evaluate" ELSE "done"
            /\ UNCHANGED <<stage, epoch>>
    /\ UNCHANGED <<recipe, metric_to_optimize, number_of_epochs, step,
                   batch_count, printed, metrics_created, wer_metric,
                   cer_metric, evaluated, loaded>>

\* Brain.evaluate: on_evaluate_start loads a checkpoint by min_key.
EvaluateStart ==
    /\ UNCHANGED <<prepVars, tokVars, ljVars>>
    /\ pc = "evaluate"
    /\ loaded' \in IF Recoverable(evaluate_min_key) = {}
                   THEN {{}}
                   ELSE { {c} : c \in Recoverable(evaluate_min_key) }
    /\ pc' = "stage_start"
    /\ UNCHANGED <<recipe, metric_to_optimize, number_of_epochs, stage, epoch,
                   tests_left, step, batch_count, printed, metrics_created,
                   wer_metric, cer_metric, evaluated, train_stats, stage_stats,
                   optimizer_lr, scheduler_lr, calls, checkpoints, n_saved,
                   ended, lr_before, ckpt_before, given_loss, valid_ends>>

NextTrain == StageStart \/ FitBatch \/ EvaluateBatch \/ StageEnd \/ EvaluateStart

Init == InitTrain /\ IdlePrep /\ IdleTok /\ IdleLj

Next == NextTrain

Spec == Init /\ [][Next]_vars

(***************************************************************************)
(* Properties of the stage lifecycle                                       *)
(***************************************************************************)
\* on_stage_end of stage stg has just run and no later handler has.
JustEnded(stg) == ended = stg /\ pc # "batches"

\* The key each recipe monitors, and its value over the batches the driver
\* evaluated in the stage that just ended.
MonitoredKey == IF recipe = SLU THEN "WER" ELSE metric_to_optimize

MonitoredValue ==
    IF MonitoredKey = "WER" THEN SumField(evaluated, "werr")
    ELSE IF MonitoredKey = "CER" THEN SumField(evaluated, "cerr")
    ELSE given_loss

CallsOf(op) == { i \in DOMAIN calls : calls[i].op = op }

\* C1: at the end of a VALID stage the scheduler is invoked exactly once, with
\* that stage's monitored metric (WER in the SLU recipe, metric_to_optimize in
\* the ASR template), and the optimizer's learning rate is then the value the
\* scheduler returned; at the end of a TRAIN or TEST stage the scheduler is not
\* invoked and the learning rate is unchanged.
C1_AnnealOncePerValid ==
    /\ JustEnded(VALID) =>
         /\ Cardinality(CallsOf("lr_annealing")) = 1
         /\ calls[1].op = "lr_annealing"
         /\ calls[1].val = MonitoredValue
         /\ calls[2].op = "update_learning_rate"
         /\ calls[2].val = scheduler_lr
         /\ optimizer_lr = scheduler_lr
         /\ optimizer_lr \in LrAnnealing(lr_before, MonitoredValue)
    /\ (JustEnded(TRAIN) \/ JustEnded(TEST)) =>
         /\ CallsOf("lr_annealing") = {}
         /\ CallsOf("update_learning_rate") = {}
         /\ optimizer_lr = lr_before

\* C1 witness: a VALID stage of the ASR template monitoring CER has ended with
\* CER different from WER, and annealing lowered the learning rate.
C1_Witness ==
    /\ JustEnded(VALID)
    /\ recipe = ASR /\ metric_to_optimize = "CER"
    /\ SumField(evaluated, "cerr") # SumField(evaluated, "werr")
    /\ optimizer_lr < lr_before

\* C2: a checkpoint is saved exactly once at the end of every VALID stage, as
\* the last call after the learning-rate update and the stats logging, its meta
\* holding that stage's monitored metric, retained by the minimum of that same
\* key; no checkpoint is saved or removed at the end of a TRAIN or TEST stage.
C2_SaveOncePerValid ==
    /\ n_saved = valid_ends
    /\ JustEnded(VALID) =>
         /\ Cardinality(CallsOf("save_and_keep_only")) = 1
         /\ Len(calls) = 4
         /\ calls[2].op = "update_learning_rate"
         /\ calls[3].op = "log_stats"
         /\ calls[4] = Call("save_and_keep_only", MonitoredKey, MonitoredValue,
                            MonitoredKey)
         /\ [n |-> n_saved, meta |-> [k \in {MonitoredKey} |-> MonitoredValue]]
              \in checkpoints
         /\ \E c \in checkpoints :
              \A d \in ckpt_before : c.meta[MonitoredKey] <= d.meta[MonitoredKey]
    /\ (JustEnded(TRAIN) \/ JustEnded(TEST)) =>
         /\ CallsOf("save_and_keep_only") = {}
         /\ checkpoints = ckpt_before

\* C2 witness: the second VALID stage of the SLU recipe has ended with a worse
\* WER than the first, so an older checkpoint is retained beside the new one.
C2_Witness ==
    /\ JustEnded(VALID)
    /\ recipe = SLU
    /\ valid_ends = 2
    /\ Cardinality(checkpoints) = 2
    /\ \E c \in checkpoints : c.n < n_saved /\ c.meta["WER"] < MonitoredValue

\* C3: during a VALID or TEST stage the WER and CER accumulators hold exactly
\* the batches evaluated in that stage, one append per batch and nothing from
\* an earlier stage, and the CER/WER summarized at the end of the stage are
\* those of the batches evaluated in it.
C3_MetricsCoverStage ==
    /\ (pc = "batches" /\ stage \in {VALID, TEST}) =>
         /\ metrics_created
         /\ wer_metric = evaluated
         /\ cer_metric = evaluated
         /\ Len(wer_metric) = step
    /\ (JustEnded(VALID) \/ JustEnded(TEST)) =>
         /\ wer_metric = evaluated
         /\ cer_metric = evaluated
         /\ stage_stats["WER"] = SumField(evaluated, "werr")
         /\ stage_stats["CER"] = SumField(evaluated, "cerr")

\* C3 witness: the second TEST stage of the SLU recipe has ended after two
\* batches, with errors, following earlier VALID and TEST stages.
C3_Witness ==
    /\ JustEnded(TEST)
    /\ recipe = SLU
    /\ pc = "done"
    /\ Len(evaluated) = 2
    /\ stage_stats["WER"] = 1
    /\ stage_stats["CER"] = 3

\* C4: no step taken during a TRAIN stage changes the WER or CER accumulators,
\* also not the SLU training batches whose results are decoded and printed.
C4_TrainLeavesMetrics ==
    [][(pc = "batches" /\ stage = TRAIN) =>
          (wer_metric' = wer_metric /\ cer_metric' = cer_metric)]_vars

\* C4 witness: in the second epoch of the SLU recipe a training batch has been
\* decoded and printed while the accumulators still hold the last VALID stage.
C4_Witness ==
    /\ pc = "batches" /\ stage = TRAIN
    /\ recipe = SLU
    /\ step = 1 /\ printed
    /\ epoch = 2
    /\ Len(wer_metric) = 2

(***************************************************************************)
(* Dataset preparation: data_io_prepare (SLU) and dataio_prepare (ASR)     *)
(***************************************************************************)
\* Values of hparams["sorting"]: the three the recipes know and two others.
Sortings == {"ascending", "descending", "random", "shuffle", "Ascending"}

KnownSortings == {"ascending", "descending", "random"}

Opts(b) == [shuffle |-> b]

\* DynamicItemDataset.filtered_sorted(sort_key, reverse): the items ordered by
\* sort_key, ascending or (reverse) descending.
RECURSIVE Insert(_, _, _, _)
Insert(x, s, k, reverse) ==
    IF s = <<>> THEN <<x>>
    ELSE IF (IF reverse THEN s[1][k] < x[k] ELSE x[k] < s[1][k])
         THEN <<x>> \o s
         ELSE <<s[1]>> \o Insert(x, Tail(s), k, reverse)

RECURSIVE FilteredSorted(_, _, _)
FilteredSorted(data, k, reverse) ==
    IF data = <<>> THEN <<>>
    ELSE Insert(data[Len(data)],
                FilteredSorted(SubSeq(data, 1, Len(data) - 1), k, reverse),
                k, reverse)

\* Outcomes of a preparation function.
Returned(hp, train) == [exc |-> "", hparams |-> hp, datasets |-> [train |-> train]]

Raised(exc, hp) == [exc |-> exc, hparams |-> hp, datasets |-> <<>>]

\* data_io_prepare of the SLU recipe, from the training manifest on.
SLU_data_io_prepare(hp, train) ==
    IF hp["sorting"] = "ascending"
    THEN Returned([hp EXCEPT !["dataloader_opts"].shuffle = FALSE],
                  FilteredSorted(train, "duration", FALSE))
    ELSE IF hp["sorting"] = "descending"
    THEN IF "dataloder_opts" \in DOMAIN hp
         THEN Returned([hp EXCEPT !["dataloder_opts"].shuffle = FALSE],
                       FilteredSorted(train, "duration", TRUE))
         ELSE Raised("KeyError", hp)
    ELSE IF hp["sorting"] = "random"
    THEN Returned(hp, train)
    ELSE Raised("NotImplementedError", hp)

\* Faulty variant: an unknown sorting is treated as "random".
Lenient_dataio_prepare(hp, train) ==
    LET hp0 == [hp EXCEPT !["train_dataloader_opts"].shuffle = FALSE,
                          !["valid_dataloader_opts"].shuffle = FALSE,
                          !["test_dataloader_opts"].shuffle = FALSE]
    IN IF hp["sorting"] = "ascending"
       THEN Returned(hp0, FilteredSorted(train, "length", FALSE))
       ELSE IF hp["sorting"] = "descending"
       THEN Returned(hp0, FilteredSorted(train, "length", TRUE))
       ELSE Returned([hp0 EXCEPT !["train_dataloader_opts"].shuffle = TRUE], train)

\* Faulty variant: "random" leaves the train shuffle option as the loop set it.
Pass_dataio_prepare(hp, train) ==
    LET hp0 == [hp EXCEPT !["train_dataloader_opts"].shuffle = FALSE,
                          !["valid_dataloader_opts"].shuffle = FALSE,
                          !["test_dataloader_opts"].shuffle = FALSE]
    IN IF hp["sorting"] = "ascending"
       THEN Returned(hp0, FilteredSorted(train, "length", FALSE))
       ELSE IF hp["sorting"] = "descending"
       THEN Returned(hp0, FilteredSorted(train, "length", TRUE))
       ELSE IF hp["sorting"] = "random"
       THEN Returned(hp0, train)
       ELSE Raised("NotImplementedError", hp0)

\* dataio_prepare of the ASR template, from the loop over the manifests on.
ASR_dataio_prepare(hp, train) ==
    LET hp0 == [hp EXCEPT !["train_dataloader_opts"].shuffle = FALSE,
                          !["valid_dataloader_opts"].shuffle = FALSE,
                          !["test_dataloader_opts"].shuffle = FALSE]
    IN IF hp["sorting"] = "ascending"
       THEN Returned([hp0 EXCEPT !["train_dataloader_opts"].shuffle = FALSE],
                     FilteredSorted(train, "length", FALSE))
       ELSE IF hp["sorting"] = "descending"
       THEN Returned([hp0 EXCEPT !["train_dataloader_opts"].shuffle = FALSE],
                     FilteredSorted(train, "length", TRUE))
       ELSE IF hp["sorting"] = "random"
       THEN Returned([hp0 EXCEPT !["train_dataloader_opts"].shuffle = TRUE], train)
       ELSE Raised("NotImplementedError", hp0)

\* The hparams dictionaries a recipe may be configured with.
SLU_hparams ==
    { ("sorting" :> srt) @@ ("dataloader_opts" :> Opts(b)) @@ extra :
        srt \in Sortings, b \in BOOLEAN,
        extra \in {<<>>} \cup { "dataloder_opts" :> Opts(t) : t \in BOOLEAN } }

ASR_hparams ==
    { ("sorting" :> srt) @@ ("train_dataloader_opts" :> Opts(a))
        @@ ("valid_dataloader_opts" :> Opts(b)) @@ ("test_dataloader_opts" :> Opts(c)) :
        srt \in Sortings, a \in BOOLEAN, b \in BOOLEAN, c \in BOOLEAN }

\* Training manifests: utterances in file order, keyed by duration / length.
Manifests(k) ==
    UNION { { [i \in 1..n |-> ("id" :> i) @@ (k :> f[i])] : f \in [1..n -> 1..MaxDur] } :
            n \in 0..MaxItems }

InitPrep ==
    /\ prep_recipe \in {SLU, ASR}
    /\ hparams \in IF prep_recipe = SLU THEN SLU_hparams ELSE ASR_hparams
    /\ hparams_in = hparams
    /\ train_manifest \in Manifests(IF prep_recipe = SLU THEN "duration" ELSE "length")
    /\ prep_pc = "call"
    /\ prep_exc = ""
    /\ datasets = <<>>
    /\ loader_kwargs = <<>>

Outcome(out) ==
    /\ hparams' = out.hparams
    /\ prep_exc' = out.exc
    /\ datasets' = out.datasets
    /\ prep_pc' = IF out.exc = "" THEN "returned" ELSE "raised"
    /\ UNCHANGED <<prep_recipe, hparams_in, train_manifest, loader_kwargs>>

\* The SLU main calls data_io_prepare(hparams).
SLUPrepare ==
    /\ UNCHANGED <<trainVars, tokVars, ljVars>>
    /\ prep_pc = "call"
    /\ prep_recipe = SLU
    /\ Outcome(SLU_data_io_prepare(hparams, train_manifest))

\* The ASR main calls dataio_prepare(hparams).
ASRPrepare ==
    /\ UNCHANGED <<trainVars, tokVars, ljVars>>
    /\ prep_pc = "call"
    /\ prep_recipe = ASR
    /\ Outcome(ASR_dataio_prepare(hparams, train_manifest))

\* The dataloader options each main passes to fit() as train_loader_kwargs.
train_loader_kwargs ==
    IF prep_recipe = SLU THEN hparams["dataloader_opts"]
                         ELSE hparams["train_dataloader_opts"]

\* The main goes on to fit() with the datasets returned.
MainFit ==
    /\ UNCHANGED <<trainVars, tokVars, ljVars>>
    /\ prep_pc = "returned"
    /\ loader_kwargs' = train_loader_kwargs
    /\ prep_pc' = "fit"
    /\ UNCHANGED <<prep_recipe, hparams, hparams_in, train_manifest, prep_exc,
                   datasets>>

NextPrep == SLUPrepare \/ ASRPrepare \/ MainFit

InitPrepCall == IdleTrain /\ InitPrep /\ IdleTok /\ IdleLj

SpecPrep == InitPrepCall /\ [][NextPrep]_vars

(***************************************************************************)
(* Properties of dataset preparation                                       *)
(***************************************************************************)
Finished == prep_pc \in {"returned", "raised", "fit"}

IsSortedBy(s, k, reverse) ==
    \A i \in 1..(Len(s) - 1) :
        IF reverse THEN s[i][k] >= s[i + 1][k] ELSE s[i][k] <= s[i + 1][k]

SameItems(s, t) ==
    /\ Len(s) = Len(t)
    /\ \A x \in {s[i] : i \in DOMAIN s} :
         Cardinality({i \in DOMAIN s : s[i] = x}) =
         Cardinality({i \in DOMAIN t : t[i] = x})

\* C5 (as claimed): with sorting "ascending" or "descending" data_io_prepare
\* returns the training set sorted by duration in that order with the shuffle
\* option of hparams["dataloader_opts"], which the main passes to fit(), set
\* to False; with "random" the order and the option are unchanged.
C5_SortingDisablesShuffle ==
    (prep_recipe = SLU /\ Finished) =>
        /\ hparams_in["sorting"] \in {"ascending", "descending"} =>
             /\ prep_pc # "raised"
             /\ IsSortedBy(datasets.train, "duration",
                           hparams_in["sorting"] = "descending")
             /\ SameItems(datasets.train, train_manifest)
             /\ hparams["dataloader_opts"].shuffle = FALSE
             /\ prep_pc = "fit" => loader_kwargs.shuffle = FALSE
        /\ hparams_in["sorting"] = "random" =>
             /\ datasets.train = train_manifest
             /\ hparams["dataloader_opts"] = hparams_in["dataloader_opts"]

\* C6: for every sorting other than random, ascending and descending both
\* preparation functions raise NotImplementedError and return no datasets.
C6_UnknownSortingRaises ==
    (Finished /\ hparams_in["sorting"] \notin KnownSortings) =>
        /\ prep_pc = "raised"
        /\ prep_exc = "NotImplementedError"
        /\ datasets = <<>>

\* C6 witness: the ASR template's function was called with sorting "shuffle"
\* on a non-empty manifest and raised.
C6_Witness ==
    /\ prep_recipe = ASR
    /\ prep_pc = "raised"
    /\ hparams_in["sorting"] = "shuffle"
    /\ Len(train_manifest) = 2

\* C7: after dataio_prepare of the ASR template returns, the valid and test
\* shuffle options are False and the train shuffle option is True exactly when
\* sorting is "random"; with "ascending" or "descending" the training set is
\* sorted by length in that order; whatever the options were before.
C7_ShuffleOptionsAfterPrepare ==
    (prep_recipe = ASR /\ prep_pc \in {"returned", "fit"}) =>
        /\ hparams["valid_dataloader_opts"].shuffle = FALSE
        /\ hparams["test_dataloader_opts"].shuffle = FALSE
        /\ hparams["train_dataloader_opts"].shuffle = (hparams_in["sorting"] = "random")
        /\ hparams_in["sorting"] \in {"ascending", "descending"} =>
             /\ IsSortedBy(datasets.train, "length",
                           hparams_in["sorting"] = "descending")
             /\ SameItems(datasets.train, train_manifest)
        /\ prep_pc = "fit" => loader_kwargs = hparams["train_dataloader_opts"]

\* C7 witness: sorting "random" with train shuffle False and valid and test
\* shuffle True before the call, and the function has returned.
C7_Witness ==
    /\ prep_recipe = ASR
    /\ prep_pc = "returned"
    /\ hparams_in["sorting"] = "random"
    /\ hparams_in["train_dataloader_opts"].shuffle = FALSE
    /\ hparams_in["valid_dataloader_opts"].shuffle = TRUE
    /\ hparams_in["test_dataloader_opts"].shuffle = TRUE
    /\ hparams["train_dataloader_opts"].shuffle = TRUE

(***************************************************************************)
(* SimpleTokenizer                                                         *)
(***************************************************************************)
\* A Python str is modelled as the sequence of its characters.
ascii_lowercase ==
    <<"a", "b", "c", "d", "e", "f", "g", "h", "i", "j", "k", "l", "m",
      "n", "o", "p", "q", "r", "s", "t", "u", "v", "w", "x", "y", "z">>

\* list += str appends each character of the str as a one-character str.
Extend(list, str) == list \o [i \in 1..Len(str) |-> <<str[i]>>]

\* Faulty variant: the blank symbol is listed twice instead of the separator.
vocab_duplicate == Extend(<< <<"-">>, <<"-">> >>, ascii_lowercase)

\* Faulty variant: the separator comes before the blank symbol.
vocab_swapped == Extend(<< <<"|">>, <<"-">> >>, ascii_lowercase)

\* SimpleTokenizer.__init__: self.vocab.
vocab == Extend(<< <<"-">>, <<"|">> >>, ascii_lowercase)

\* enumerate(self.vocab) counts from 0.
Enumerated == { <<i - 1, vocab[i]>> : i \in DOMAIN vocab }

\* self.id2sym = {i: s for i, s in enumerate(self.vocab)}
id2sym == [i \in {e[1] : e \in Enumerated} |-> vocab[i + 1]]

\* self.sym2id = {s: i for i, s in enumerate(self.vocab)}: a later entry of
\* the same symbol overwrites an earlier one.
sym2id ==
    [sym \in {e[2] : e \in Enumerated} |->
        CHOOSE i \in {e[1] : e \in Enumerated} :
            /\ vocab[i + 1] = sym
            /\ \A j \in {e[1] : e \in Enumerated} : vocab[j + 1] = sym => j <= i]

\* Iterating a str yields its characters as one-character strs.
CharsOf(text) == [i \in 1..Len(text) |-> <<text[i]>>]

\* ''.join(parts)
RECURSIVE Join(_)
Join(parts) == IF parts = <<>> THEN <<>> ELSE parts[1] \o Join(Tail(parts))

\* SimpleTokenizer.encode_as_ids; a symbol outside the vocabulary is a KeyError.
encode_as_ids(text) ==
    IF \A i \in 1..Len(text) : CharsOf(text)[i] \in DOMAIN sym2id
    THEN [exc |-> "", val |-> [i \in 1..Len(text) |-> sym2id[CharsOf(text)[i]]]]
    ELSE [exc |-> "KeyError", val |-> <<>>]

\* SimpleTokenizer.decode_ids; an id outside the vocabulary is a KeyError.
decode_ids(ids) ==
    IF \A i \in 1..Len(ids) : ids[i] \in DOMAIN id2sym
    THEN [exc |-> "", val |-> Join([i \in 1..Len(ids) |-> id2sym[ids[i]]])]
    ELSE [exc |-> "KeyError", val |-> <<>>]

\* The characters and ids the tokenizer is tried on.
Alphabet == {"-", "|"} \cup {ascii_lowercase[i] : i \in DOMAIN ascii_lowercase}

SeqsUpTo(S, n) == UNION { [1..k -> S] : k \in 0..n }

InitTok ==
    /\ tok_mode \in {"text", "ids"}
    /\ tok_input \in IF tok_mode = "text"
                     THEN SeqsUpTo(Alphabet, MaxTokLen)
                     ELSE SeqsUpTo(0..(Cardinality(Alphabet) - 1), MaxTokLen)
    /\ tok_pc = "start"
    /\ tok_out = <<>>
    /\ tok_back = <<>>
    /\ tok_exc = ""

InitTokenizer == IdleTrain /\ IdlePrep /\ InitTok /\ IdleLj

\* tokenizer.encode_as_ids(text)
EncodeText ==
    /\ UNCHANGED <<trainVars, prepVars, ljVars>>
    /\ tok_mode = "text" /\ tok_pc = "start"
    /\ tok_out' = encode_as_ids(tok_input).val
    /\ tok_exc' = encode_as_ids(tok_input).exc
    /\ tok_pc' = IF encode_as_ids(tok_input).exc = "" THEN "first" ELSE "raised"
    /\ UNCHANGED <<tok_mode, tok_input, tok_back>>

\* tokenizer.decode_ids(tokenizer.encode_as_ids(text))
DecodeBack ==
    /\ UNCHANGED <<trainVars, prepVars, ljVars>>
    /\ tok_mode = "text" /\ tok_pc = "first"
    /\ tok_back' = decode_ids(tok_out).val
    /\ tok_exc' = decode_ids(tok_out).exc
    /\ tok_pc' = IF decode_ids(tok_out).exc = "" THEN "back" ELSE "raised"
    /\ UNCHANGED <<tok_mode, tok_input, tok_out>>

\* tokenizer.decode_ids(ids)
DecodeIds ==
    /\ UNCHANGED <<trainVars, prepVars, ljVars>>
    /\ tok_mode = "ids" /\ tok_pc = "start"
    /\ tok_out' = decode_ids(tok_input).val
    /\ tok_exc' = decode_ids(tok_input).exc
    /\ tok_pc' = IF decode_ids(tok_input).exc = "" THEN "first" ELSE "raised"
    /\ UNCHANGED <<tok_mode, tok_input, tok_back>>

\* tokenizer.encode_as_ids(tokenizer.decode_ids(ids))
EncodeBack ==
    /\ UNCHANGED <<trainVars, prepVars, ljVars>>
    /\ tok_mode = "ids" /\ tok_pc = "first"
    /\ tok_back' = encode_as_ids(tok_out).val
    /\ tok_exc' = encode_as_ids(tok_out).exc
    /\ tok_pc' = IF encode_as_ids(tok_out).exc = "" THEN "back" ELSE "raised"
    /\ UNCHANGED <<tok_mode, tok_input, tok_out>>

NextTok == EncodeText \/ DecodeBack \/ DecodeIds \/ EncodeBack

SpecTok == InitTokenizer /\ [][NextTok]_vars

(***************************************************************************)
(* Properties of SimpleTokenizer                                           *)
(***************************************************************************)
\* C8: decode_ids(encode_as_ids(text)) = text for every text over the 28
\* vocabulary symbols, and encode_as_ids(decode_ids(ids)) = ids for every list
\* of ids in 0..27.
C8_RoundTrip ==
    /\ tok_pc # "raised"
    /\ tok_pc = "back" => tok_back = tok_input

\* C8 witness: the ids <<0, 1>> were decoded and encoded back.
C8_Witness ==
    /\ tok_mode = "ids" /\ tok_pc = "back"
    /\ tok_input = <<0, 1>>
    /\ tok_out = <<"-", "|">>

\* C9: encode_as_ids returns one id per character, in the text's order, the id
\* of a symbol being its position in the vocabulary ('-' 0, '|' 1, 'a'..'z'
\* 2..27), and sym2id and id2sym are inverse bijections between the 28 symbols
\* and the ids 0..27.
C9_EncodePositions ==
    /\ (tok_mode = "text" /\ tok_pc # "start") =>
         /\ tok_exc = ""
         /\ Len(tok_out) = Len(tok_input)
         /\ \A i \in 1..Len(tok_input) :
              /\ tok_out[i] \in 0..27
              /\ vocab[tok_out[i] + 1] = <<tok_input[i]>>
              /\ tok_input[i] = "-" => tok_out[i] = 0
              /\ tok_input[i] = "|" => tok_out[i] = 1
              /\ \A k \in 1..26 :
                   tok_input[i] = ascii_lowercase[k] => tok_out[i] = k + 1
    /\ DOMAIN id2sym = 0..27
    /\ DOMAIN sym2id = {<<c>> : c \in Alphabet}
    /\ Cardinality(DOMAIN sym2id) = 28
    /\ \A i \in DOMAIN id2sym : sym2id[id2sym[i]] = i
    /\ \A sym \in DOMAIN sym2id : id2sym[sym2id[sym]] = sym

\* C9 witness: the text "z-" was encoded to <<27, 0>>.
C9_Witness ==
    /\ tok_mode = "text" /\ tok_pc = "first"
    /\ tok_input = <<"z", "-">>
    /\ tok_out = <<27, 0>>

(***************************************************************************)
(* prepare_ljspeech                                                        *)
(***************************************************************************)
ManifestNames == <<"train", "valid", "test">>

\* Faulty variant: the preparation is skipped as soon as one manifest exists.
skip_any(files) == \E i \in DOMAIN ManifestNames : ManifestNames[i] \in files

\* skip(save_json_train, save_json_valid, save_json_test): every file exists.
skip(files) == \A i \in DOMAIN ManifestNames : ManifestNames[i] \in files

\* check_folders(folder)
check_folders(folder, wanted) ==
    IF wanted = "raw" THEN folder # "missing" ELSE folder = "downsampled"

\* Python's s[lo:hi], negative indices counting from the end.
ClampIndex(i, n) == IF i < 0 THEN (IF i + n < 0 THEN 0 ELSE i + n)
                    ELSE (IF i > n THEN n ELSE i)

PySlice(s, lo, hi) ==
    LET a == ClampIndex(lo, Len(s))
        b == ClampIndex(hi, Len(s))
    IN IF a < b THEN SubSeq(s, a + 1, b) ELSE <<>>

\* [x for x in s if x not in excl]
RECURSIVE Filtered(_, _)
Filtered(s, excl) ==
    IF s = <<>> THEN <<>>
    ELSE IF s[1] \in excl THEN Filtered(Tail(s), excl)
    ELSE <<s[1]>> \o Filtered(Tail(s), excl)

\* Faulty variant: the share is rounded up instead of down.
CeilPart(pct, n) == (pct * n + PctDen - 1) \div PctDen

\* math.floor(percent * n) for percent = pct / PctDen.
FloorPart(pct, n) == (pct * n) \div PctDen

\* What a call leaves behind.
LjOutcome(exc, folder, ops, written, content) ==
    [exc |-> exc, folder |-> folder, ops |-> ops, written |-> written,
     content |-> content]

\* The manifests written by the three create_json calls, up to a failure.
CreateJsons(parts, fail) ==
    IF fail = "json_train" THEN <<>>
    ELSE IF fail = "json_valid" THEN <<"train">>
    ELSE IF fail = "json_test" THEN <<"train", "valid">>
    ELSE <<"train", "valid", "test">>

\* prepare_ljspeech(data_folder, uttids_to_excl, valid_percent, test_percent,
\* save_json_train, save_json_valid, save_json_test, text_cleaners).
prepare_ljspeech(files, folder, found, excl, valid_pct, test_pct, fail) ==
    IF skip(files)
    THEN LjOutcome("", folder, {}, <<>>, <<>>)
    ELSE
    LET need_download == ~check_folders(folder, "raw")
        ops1 == IF need_download THEN {"download"} ELSE {}
        folder1 == IF need_download THEN "raw" ELSE folder
    IN
    IF need_download /\ fail = "download"
    THEN LjOutcome("DownloadError", folder, ops1, <<>>, <<>>)
    ELSE IF found # ExpectedN
    THEN LjOutcome("AssertionError", folder1, ops1, <<>>, <<>>)
    ELSE
    LET need_16k == ~check_folders(folder1, "downsampled")
        ops2 == IF need_16k THEN ops1 \cup {"downsample"} ELSE ops1
        folder2 == "downsampled"
        ops3 == ops2 \cup {"read_exclusions"}
    IN
    IF fail = "exclusions"
    THEN LjOutcome("FileNotFoundError", folder2, ops3, <<>>, <<>>)
    ELSE
    LET wav_list == Filtered([i \in 1..found |-> i], excl)
        filtered_n == Len(wav_list)
        valid_n == FloorPart(valid_pct, filtered_n)
        test_n == FloorPart(test_pct, filtered_n)
        train_n == filtered_n - (valid_n + test_n)
        wav_list_train == PySlice(wav_list, 0, train_n)
        wav_list_valid == PySlice(wav_list, train_n, train_n + valid_n)
        wav_list_test == PySlice(wav_list, train_n + valid_n, filtered_n)
        parts == [train |-> wav_list_train, valid |-> wav_list_valid,
                  test |-> wav_list_test]
        ops4 == ops3 \cup {"read_metadata"}
    IN
    IF train_n + valid_n + test_n # filtered_n
    THEN LjOutcome("AssertionError", folder2, ops3, <<>>, <<>>)
    ELSE IF Len(wav_list_train) + Len(wav_list_valid) + Len(wav_list_test) # filtered_n
    THEN LjOutcome("AssertionError", folder2, ops3, <<>>, <<>>)
    ELSE IF fail = "metadata"
    THEN LjOutcome("FileNotFoundError", folder2, ops4, <<>>, <<>>)
    ELSE LjOutcome(IF fail \in {"json_train", "json_valid", "json_test"}
                   THEN "RuntimeError" ELSE "",
                   folder2, ops4, CreateJsons(parts, fail), parts)

\* Steps at which the environment may fail.
LjFailures ==
    {"none", "download", "exclusions", "metadata", "json_train", "json_valid",
     "json_test"}

InitLj ==
    /\ lj_files \in SUBSET {"train", "valid", "test"}
    /\ lj_folder \in {"missing", "raw", "downsampled"}
    /\ lj_found \in {ExpectedN, 2 * ExpectedN}
    /\ lj_excl \in SUBSET (1..ExpectedN)
    /\ lj_valid_pct \in 0..PctDen
    /\ lj_test_pct \in 0..PctDen
    /\ lj_fail \in LjFailures
    /\ lj_pc = "call"
    /\ lj_exc = ""
    /\ lj_ops = {}
    /\ lj_written = <<>>
    /\ lj_content = <<>>
    /\ lj_before = lj_files

InitLjCall == IdleTrain /\ IdlePrep /\ IdleTok /\ InitLj

\* The tokenizer and ASR mains call prepare_ljspeech once.
PrepareLjspeech ==
    /\ UNCHANGED <<trainVars, prepVars, tokVars>>
    /\ lj_pc = "call"
    /\ LET out == prepare_ljspeech(lj_files, lj_folder, lj_found, lj_excl,
                                   lj_valid_pct, lj_test_pct, lj_fail)
       IN /\ lj_exc' = out.exc
          /\ lj_pc' = IF out.exc = "" THEN "returned" ELSE "raised"
          /\ lj_folder' = out.folder
          /\ lj_ops' = out.ops
          /\ lj_written' = out.written
          /\ lj_content' = out.content
          /\ lj_files' = lj_files \cup {out.written[i] : i \in DOMAIN out.written}
    /\ UNCHANGED <<lj_found, lj_excl, lj_valid_pct, lj_test_pct, lj_fail,
                   lj_before>>

NextLj == PrepareLjspeech

SpecLj == InitLjCall /\ [][NextLj]_vars

(***************************************************************************)
(* Properties of prepare_ljspeech                                          *)
(***************************************************************************)
AllManifests == {"train", "valid", "test"}

\* C10: when all three manifests exist beforehand prepare_ljspeech returns
\* without downloading, downsampling, reading the exclusion list or writing a
\* file; when one is missing, a call that completes has written all three.
C10_SkipOrWriteAll ==
    /\ (lj_pc \in {"returned", "raised"} /\ lj_before = AllManifests) =>
         /\ lj_pc = "returned"
         /\ lj_ops = {}
         /\ lj_written = <<>>
         /\ lj_files = lj_before
    /\ (lj_pc = "returned" /\ lj_before # AllManifests) =>
         /\ lj_written = <<"train", "valid", "test">>
         /\ lj_files = AllManifests

\* C10 witness: a call found all three manifests, with the dataset folder
\* missing and a download that would have failed, and returned.
C10_Witness ==
    /\ lj_pc = "returned"
    /\ lj_before = AllManifests
    /\ lj_folder = "missing"
    /\ lj_fail = "download"

\* The greatest integer not above (pct / PctDen) * n.
IsFloorOf(k, pct, n) == k * PctDen <= pct * n /\ pct * n < (k + 1) * PctDen

\* A call got past the skip test and wrote its three manifests.
WroteManifests == lj_pc = "returned" /\ lj_before # AllManifests

\* valid_percent and test_percent lie in [0, 1] and sum to at most 1.
PercentsInRange ==
    /\ lj_valid_pct \in 0..PctDen
    /\ lj_test_pct \in 0..PctDen
    /\ lj_valid_pct + lj_test_pct <= PctDen

\* C11: for valid_percent and test_percent in [0, 1] with sum at most 1, the
\* train, valid and test manifests are consecutive segments, in that order, of
\* the file list left after exclusion, of sizes n - (valid + test),
\* floor(valid_percent * n) and floor(test_percent * n), every remaining
\* utterance is in exactly one of them, and neither size assertion fails.
C11_SplitPartitionsRemaining ==
    /\ (WroteManifests /\ PercentsInRange) =>
         LET all == lj_content.train \o lj_content.valid \o lj_content.test
             n == Cardinality((1..ExpectedN) \ lj_excl)
         IN /\ Len(all) = n
            /\ {all[i] : i \in DOMAIN all} = (1..ExpectedN) \ lj_excl
            /\ \A i \in 1..(Len(all) - 1) : all[i] < all[i + 1]
            /\ IsFloorOf(Len(lj_content.valid), lj_valid_pct, n)
            /\ IsFloorOf(Len(lj_content.test), lj_test_pct, n)
            /\ Len(lj_content.train) =
                 n - (Len(lj_content.valid) + Len(lj_content.test))
    /\ (lj_pc = "raised" /\ PercentsInRange /\ lj_found = ExpectedN) =>
         lj_exc # "AssertionError"

\* C11 witness: three utterances remain after one exclusion, split with
\* valid_percent = test_percent = 1/PctDen into non-empty train, valid and
\* test manifests.
C11_Witness ==
    /\ WroteManifests
    /\ lj_valid_pct = 1 /\ lj_test_pct = 1
    /\ lj_excl = {2}
    /\ lj_content.train # <<>>
    /\ lj_content.valid # <<>>
    /\ lj_content.test # <<>>

\* C12: in the ASR template metric_to_optimize is the key of the value given
\* to annealing, the checkpoint meta key and the retention min key at every
\* VALID stage end, and the min_key of evaluate; so the checkpoint loaded for
\* the TEST stage is a retained checkpoint with the least recorded value of
\* the metric that drove annealing.
C12_OneKeyThroughout ==
    recipe = ASR =>
        /\ JustEnded(VALID) =>
             /\ calls[1].op = "lr_annealing"
             /\ calls[1].val = stage_stats[metric_to_optimize]
             /\ calls[4].op = "save_and_keep_only"
             /\ calls[4].key = metric_to_optimize
             /\ calls[4].min_key = metric_to_optimize
             /\ calls[4].val = calls[1].val
             /\ \E c \in checkpoints :
                  c.n = n_saved /\ c.meta[metric_to_optimize] = calls[1].val
        /\ \A c \in checkpoints : DOMAIN c.meta = {metric_to_optimize}
        /\ (stage = TEST /\ pc # "evaluate") =>
             \E c \in checkpoints :
                /\ loaded = {c}
                /\ \A d \in checkpoints :
                     c.meta[metric_to_optimize] <= d.meta[metric_to_optimize]

\* C12 witness: the ASR template monitored CER over two epochs, the first
\* epoch's checkpoint has the smaller CER, and the TEST stage ran on it.
C12_Witness ==
    /\ recipe = ASR /\ metric_to_optimize = "CER"
    /\ pc = "done" /\ stage = TEST
    /\ Cardinality(checkpoints) = 2
    /\ \E c \in loaded :
         /\ c.n = 1
         /\ \E d \in checkpoints : d.n = 2 /\ c.meta["CER"] < d.meta["CER"]

====
